---------------------------- MODULE Spec2Model ----------------------------
(***************************************************************************)
(* PhotoGallery (src/src/app/page.tsx; src/unnamed/part_000 is an earlier  *)
(* copy of the same component with identical handlers).                     *)
(*                                                                         *)
(* The component holds three pieces of React state (images, uploading,     *)
(* selectedFile) and talks to two collaborators: the "images" table (db)   *)
(* and the "photos" bucket (storage).  Every collaborator call is an       *)
(* awaited request: the handler suspends, the collaborator serves the      *)
(* request at some later moment (succeeding or failing), and the handler   *)
(* resumes when the reply arrives.  Each call is therefore two steps here: *)
(* ...Server (the collaborator acts, the reply is in flight) and ...Resp   *)
(* (the handler resumes with the reply), so that replies can arrive stale  *)
(* and out of order.  The outstanding invocations of a handler form a bag: *)
(* nothing in the code tells two invocations apart but their arguments and *)
(* how far they have come.                                                 *)
(***************************************************************************)
EXTENDS Integers, Sequences, FiniteSets, Bags, TLC

\* ---------------------------------------------------------------- bounds
\* Rows (and their objects) present in the backend when the page is opened.
MaxRecords == 2
\* Distinct values Date.now() can return during the session.
MaxClock == 1
\* Handler invocations (the mount-time fetch, uploads, deletes) that can be
\* outstanding at once.
MaxInFlight == 2
\* User events (file selections, clicks on Upload, clicks on a delete button)
\* in one session.
MaxEvents == 4

\* ----------------------------------------------------------------- data
\* "No file": selectedFile === null, or a change event with no files.
NoFile == [name |-> "", size |-> 0]

\* The File objects the user can pick (name, size); two of them have the
\* same name and different contents.
Files ==
  { [name |-> "cat.png", size |-> 2048],
    [name |-> "cat.png", size |-> 100],
    [name |-> "dog.png", size |-> 512] }

\* `${Date.now()}-${selectedFile.name}`: the timestamp is digits only, so the
\* first "-" separates the two parts and the string determines the pair.
FilePath(ts, name) == <<ts, name>>

\* The file behind row i of the table as the page finds it.
InitFile(i) ==
  IF i % 2 = 1 THEN [name |-> "cat.png", size |-> 2048]
               ELSE [name |-> "dog.png", size |-> 512]

\* interface ImageData: row i as the page finds it (url is not read by any
\* handler and is left out).
InitRecord(i) ==
  [ id           |-> i,
    created_at   |-> i,
    file_name    |-> InitFile(i).name,
    file_size    |-> InitFile(i).size,
    storage_path |-> FilePath(i, InitFile(i).name) ]

\* The stored object behind row i.
InitObject(i) == [path |-> FilePath(i, InitFile(i).name), file |-> InitFile(i)]

\* The values Date.now() returns during the session, all later than the keys
\* of the objects the page finds (the wall clock may repeat a value).
Timestamps == (MaxRecords + 1)..(MaxRecords + MaxClock)

\* A reply that carries nothing (no request outstanding).
NoReply == [ok |-> FALSE, data |-> <<>>]

VARIABLES
  db,            \* rows of the "images" table
  storage,       \* objects of the "photos" bucket
  images,        \* useState<ImageData[]>
  uploading,     \* useState<boolean>
  selectedFile,  \* useState<File | null>
  mount,         \* the mount-time fetchImages: [pc, reply]
  up,            \* outstanding handleUpload invocations: bag of [pc, file, path, reply]
  del,           \* outstanding handleDelete invocations: bag of [pc, id, path, reply]
  events         \* user events handled so far

vars == <<db, storage, images, uploading, selectedFile, mount, up, del, events>>

Init ==
  /\ db = {InitRecord(i) : i \in 1..MaxRecords}
  /\ storage = {InitObject(i) : i \in 1..MaxRecords}
  /\ images = <<>>
  /\ uploading = FALSE
  /\ selectedFile = NoFile
  /\ mount = [pc |-> "init", reply |-> NoReply]
  /\ up = EmptyBag
  /\ del = EmptyBag
  /\ events = 0

\* Invocation x of bag B has moved on to y; invocation x has returned.
Moved(B, x, y) == (B (-) SetToBag({x})) (+) SetToBag({y})
Returned(B, x) == B (-) SetToBag({x})

\* ------------------------------------------------------- the collaborators
\* SortDesc with the order turned round: { ascending: true }.
RECURSIVE SortAsc(_)
SortAsc(S) ==
  IF S = {} THEN <<>>
  ELSE LET m == CHOOSE r \in S : \A q \in S : r.created_at <= q.created_at
       IN  <<m>> \o SortAsc(S \ {m})

\* .order("created_at", { ascending: false }) over the rows of S.
RECURSIVE SortDesc(_)
SortDesc(S) ==
  IF S = {} THEN <<>>
  ELSE LET m == CHOOSE r \in S : \A q \in S : q.created_at <= r.created_at
       IN  <<m>> \o SortDesc(S \ {m})

\* ListReply without .order(...): the table answers in an order of its own
\* choosing, here one that varies with the moment it is asked.
ListReplyUnordered(ok) ==
  [ok |-> ok,
   data |-> IF ~ok THEN <<>> ELSE IF uploading THEN SortAsc(db) ELSE SortDesc(db)]

\* supabase.from("images").select("*").order(...): { data, error }.
ListReply(ok) == [ok |-> ok, data |-> IF ok THEN SortDesc(db) ELSE <<>>]

\* The reply to a write: { error }.
WriteReply(ok) == [ok |-> ok, data |-> <<>>]

\* PutAccepted with { upsert: true }: a taken key does not stop the write.
PutAcceptedUpsert(path) == TRUE

\* storage.from('photos').upload(path, file, { upsert: false }): the write is
\* refused when an object already exists under the key.
PutAccepted(path) == \A o \in storage : o.path # path

StoragePut(path, file) == storage \cup {[path |-> path, file |-> file]}

\* StorageRemove called on the bucket folder instead of the key: every object
\* of the bucket goes.
StorageRemoveAll(path) == {}

\* storage.from("photos").remove([path]): the bucket without that object
\* (removing a key that holds no object removes nothing and is no error).
StorageRemove(path) == {o \in storage : o.path # path}

\* DbDelete with the filter inverted (.neq for .eq): every other row goes.
DbDeleteOthers(id) == {r \in db : r.id = id}

\* from("images").delete().eq("id", id): the table without the rows of that id
\* (a filter that matches no row deletes nothing and is no error).
DbDelete(id) == {r \in db : r.id # id}

\* ---------------------------------------------------------- fetchImages
\* FetchImagesResult without the early return of lines 51-54: the list is set
\* to data || [] on an error reply too.
FetchImagesResultNoReturn(reply) == reply.data

\* Lines 51-56: an error reply returns before setImages; otherwise the list
\* is replaced by the rows of the reply.
FetchImagesResult(reply) == IF reply.ok THEN reply.data ELSE images

\* useEffect(() => { fetchImages(); }, []): the request goes out.
Mount ==
  /\ mount.pc = "init"
  /\ mount' = [mount EXCEPT !.pc = "list_req"]
  /\ UNCHANGED <<db, storage, images, uploading, selectedFile, up, del, events>>

MountListServer ==
  /\ mount.pc = "list_req"
  /\ \E ok \in BOOLEAN :
       mount' = [pc |-> "list_resp", reply |-> ListReply(ok)]
  /\ UNCHANGED <<db, storage, images, uploading, selectedFile, up, del, events>>

MountListResp ==
  /\ mount.pc = "list_resp"
  /\ images' = FetchImagesResult(mount.reply)
  /\ mount' = [pc |-> "done", reply |-> NoReply]
  /\ UNCHANGED <<db, storage, uploading, selectedFile, up, del, events>>

\* The page is rendered and its effect has run: the controls take events.
Mounted == mount.pc # "init"

\* The handler invocations that have not returned yet.
InFlight ==
  BagCardinality(up) + BagCardinality(del)
  + (IF mount.pc \in {"list_req", "list_resp"} THEN 1 ELSE 0)

\* Room for one more invocation within the bound.
CanStart == InFlight < MaxInFlight

\* One more user event within the bound of the session.
UserEvent == events < MaxEvents /\ events' = events + 1

\* ------------------------------------------------------ handleFileSelect
\* Lines 59-64: if (file) setSelectedFile(file).
HandleFileSelect(f) ==
  /\ selectedFile' = IF f # NoFile THEN f ELSE selectedFile
  /\ UNCHANGED <<db, storage, images, uploading, mount, up, del>>

\* <Input disabled={uploading}> (line 131).
FileInputEnabled == ~uploading

\* A change event of the file input, with a file or (the dialog cancelled)
\* without one.
FileSelect ==
  /\ Mounted
  /\ FileInputEnabled
  /\ UserEvent
  /\ \E f \in Files \cup {NoFile} : HandleFileSelect(f)

\* ---------------------------------------------------------- handleUpload
\* UploadButtonEnabled without the flag: disabled={!selectedFile}.
UploadButtonIgnoresFlag == selectedFile # NoFile

\* <Button disabled={!selectedFile || uploading}> (line 136).
UploadButtonEnabled == selectedFile # NoFile /\ ~uploading

\* HandleUpload without the guard of line 67.
HandleUploadNoGuard(ts) ==
  /\ uploading' = TRUE
  /\ up' = up (+) SetToBag({[ pc    |-> "put_req",
                              file  |-> selectedFile,
                              path  |-> FilePath(ts, selectedFile.name),
                              reply |-> NoReply ]})
  /\ UNCHANGED <<db, storage, images, selectedFile, mount, del>>

\* Lines 66-85: without a file, return; else setUploading(true), build the key
\* from Date.now() (ts) and send the object write.
HandleUpload(ts) ==
  IF selectedFile = NoFile
  THEN UNCHANGED <<db, storage, images, uploading, selectedFile, mount, up, del>>
  ELSE /\ uploading' = TRUE
       /\ up' = up (+) SetToBag({[ pc    |-> "put_req",
                                   file  |-> selectedFile,
                                   path  |-> FilePath(ts, selectedFile.name),
                                   reply |-> NoReply ]})
       /\ UNCHANGED <<db, storage, images, selectedFile, mount, del>>

\* A click on the Upload button.
UploadClick ==
  /\ Mounted
  /\ UploadButtonEnabled
  /\ CanStart
  /\ UserEvent
  /\ \E ts \in Timestamps : HandleUpload(ts)

\* The bucket serves the object write (lines 74-85): it fails on the
\* collaborator's own account or because the key is taken; on success the
\* object is stored.  Nothing else is written: no row of the table is
\* inserted, here or anywhere in handleUpload.
UploadPutServer(u) ==
  /\ u.pc = "put_req"
  /\ \E net \in BOOLEAN :
       LET ok == net /\ PutAccepted(u.path) IN
       /\ storage' = IF ok THEN StoragePut(u.path, u.file) ELSE storage
       /\ up' = Moved(up, u, [u EXCEPT !.pc = "put_resp", !.reply = WriteReply(ok)])
  /\ UNCHANGED <<db, images, uploading, selectedFile, mount, del, events>>

\* UploadPutResp without the throw of line 87: fetchImages is called whatever
\* the reply to the write says.
UploadPutRespNoThrow(u) ==
  /\ u.pc = "put_resp"
  /\ up' = Moved(up, u, [u EXCEPT !.pc = "list_req", !.reply = NoReply])
  /\ UNCHANGED <<db, storage, images, uploading, selectedFile, mount, del, events>>

\* UploadPutResp with a row for the file written whatever the reply says
\* (a metadata insert placed ahead of the error check).
UploadPutRespInserts(u) ==
  /\ u.pc = "put_resp"
  /\ db' = db \cup {[ id           |-> MaxRecords + 1,
                      created_at   |-> MaxRecords + 1,
                      file_name    |-> u.file.name,
                      file_size    |-> u.file.size,
                      storage_path |-> u.path ]}
  /\ IF u.reply.ok
     THEN /\ up' = Moved(up, u, [u EXCEPT !.pc = "list_req", !.reply = NoReply])
          /\ UNCHANGED uploading
     ELSE /\ up' = Returned(up, u)
          /\ uploading' = FALSE
  /\ UNCHANGED <<storage, images, selectedFile, mount, del, events>>

\* UploadPutResp with setUploading(false) at the end of the try block instead
\* of in a finally: the throw of line 87 leaves the flag set.
UploadPutRespNoFinally(u) ==
  /\ u.pc = "put_resp"
  /\ IF u.reply.ok
     THEN up' = Moved(up, u, [u EXCEPT !.pc = "list_req", !.reply = NoReply])
     ELSE up' = Returned(up, u)
  /\ UNCHANGED <<db, storage, images, uploading, selectedFile, mount, del, events>>

\* handleUpload resumes with the reply to the write (lines 87-98): an error
\* is thrown to the catch and the finally clears the flag; otherwise
\* fetchImages is called and its request goes out.
UploadPutResp(u) ==
  /\ u.pc = "put_resp"
  /\ IF u.reply.ok
     THEN /\ up' = Moved(up, u, [u EXCEPT !.pc = "list_req", !.reply = NoReply])
          /\ UNCHANGED uploading
     ELSE /\ up' = Returned(up, u)
          /\ uploading' = FALSE
  /\ UNCHANGED <<db, storage, images, selectedFile, mount, del, events>>

UploadListServer(u) ==
  /\ u.pc = "list_req"
  /\ \E ok \in BOOLEAN :
       up' = Moved(up, u, [u EXCEPT !.pc = "list_resp", !.reply = ListReply(ok)])
  /\ UNCHANGED <<db, storage, images, uploading, selectedFile, mount, del, events>>

\* UploadListResp with setUploading(false) in the catch instead of the
\* finally: the flag stays set when nothing was thrown.
UploadListRespKeepsFlag(u) ==
  /\ u.pc = "list_resp"
  /\ images' = FetchImagesResult(u.reply)
  /\ selectedFile' = NoFile
  /\ up' = Returned(up, u)
  /\ UNCHANGED <<db, storage, uploading, mount, del, events>>

\* UploadListResp without line 90: the selection is not cleared.
UploadListRespKeepsFile(u) ==
  /\ u.pc = "list_resp"
  /\ images' = FetchImagesResult(u.reply)
  /\ uploading' = FALSE
  /\ up' = Returned(up, u)
  /\ UNCHANGED <<db, storage, selectedFile, mount, del, events>>

\* Lines 89-98: fetchImages returns (it throws in neither case), then
\* setSelectedFile(null), then the finally's setUploading(false).
UploadListResp(u) ==
  /\ u.pc = "list_resp"
  /\ images' = FetchImagesResult(u.reply)
  /\ selectedFile' = NoFile
  /\ uploading' = FALSE
  /\ up' = Returned(up, u)
  /\ UNCHANGED <<db, storage, mount, del, events>>

\* ---------------------------------------------------------- handleDelete
\* Lines 101-105: the object removal goes out.
HandleDelete(id, path) ==
  /\ del' = del (+) SetToBag({[ pc    |-> "storage_req",
                                id    |-> id,
                                path  |-> path,
                                reply |-> NoReply ]})
  /\ UNCHANGED <<db, storage, images, uploading, selectedFile, mount, up>>

\* A click on the delete button of a rendered card (line 177): the id and
\* the path are those of the in-memory list.
DeleteClick ==
  /\ Mounted
  /\ CanStart
  /\ UserEvent
  /\ \E i \in 1..Len(images) : HandleDelete(images[i].id, images[i].storage_path)

\* The bucket serves the object removal (lines 103-105).
DeleteStorageServer(d) ==
  /\ d.pc = "storage_req"
  /\ \E ok \in BOOLEAN :
       /\ storage' = IF ok THEN StorageRemove(d.path) ELSE storage
       /\ del' = Moved(del, d, [d EXCEPT !.pc = "storage_resp", !.reply = WriteReply(ok)])
  /\ UNCHANGED <<db, images, uploading, selectedFile, mount, up, events>>

\* DeleteStorageResp without the throw of line 107: the row removal goes out
\* whatever the reply to the object removal says.
DeleteStorageRespNoThrow(d) ==
  /\ d.pc = "storage_resp"
  /\ del' = Moved(del, d, [d EXCEPT !.pc = "db_req", !.reply = NoReply])
  /\ UNCHANGED <<db, storage, images, uploading, selectedFile, mount, up, events>>

\* Line 107: if (storageError) throw storageError (to the catch, which only
\* logs); else the row removal of lines 109-112 goes out.
DeleteStorageResp(d) ==
  /\ d.pc = "storage_resp"
  /\ IF d.reply.ok
     THEN del' = Moved(del, d, [d EXCEPT !.pc = "db_req", !.reply = NoReply])
     ELSE del' = Returned(del, d)
  /\ UNCHANGED <<db, storage, images, uploading, selectedFile, mount, up, events>>

\* The table serves the row removal (lines 109-112).
DeleteDbServer(d) ==
  /\ d.pc = "db_req"
  /\ \E ok \in BOOLEAN :
       /\ db' = IF ok THEN DbDelete(d.id) ELSE db
       /\ del' = Moved(del, d, [d EXCEPT !.pc = "db_resp", !.reply = WriteReply(ok)])
  /\ UNCHANGED <<storage, images, uploading, selectedFile, mount, up, events>>

\* DeleteDbResp that sends the row removal again after an error reply.
DeleteDbRespRetries(d) ==
  /\ d.pc = "db_resp"
  /\ IF d.reply.ok
     THEN del' = Moved(del, d, [d EXCEPT !.pc = "list_req", !.reply = NoReply])
     ELSE del' = Moved(del, d, [d EXCEPT !.pc = "db_req", !.reply = NoReply])
  /\ UNCHANGED <<db, storage, images, uploading, selectedFile, mount, up, events>>

\* DeleteDbResp without the throw of line 114: fetchImages is called whatever
\* the reply to the row removal says.
DeleteDbRespNoThrow(d) ==
  /\ d.pc = "db_resp"
  /\ del' = Moved(del, d, [d EXCEPT !.pc = "list_req", !.reply = NoReply])
  /\ UNCHANGED <<db, storage, images, uploading, selectedFile, mount, up, events>>

\* Line 114: if (dbError) throw dbError (to the catch, which only logs);
\* else fetchImages (line 116) is called and its request goes out.
DeleteDbResp(d) ==
  /\ d.pc = "db_resp"
  /\ IF d.reply.ok
     THEN del' = Moved(del, d, [d EXCEPT !.pc = "list_req", !.reply = NoReply])
     ELSE del' = Returned(del, d)
  /\ UNCHANGED <<db, storage, images, uploading, selectedFile, mount, up, events>>

DeleteListServer(d) ==
  /\ d.pc = "list_req"
  /\ \E ok \in BOOLEAN :
       del' = Moved(del, d, [d EXCEPT !.pc = "list_resp", !.reply = ListReply(ok)])
  /\ UNCHANGED <<db, storage, images, uploading, selectedFile, mount, up, events>>

\* Line 116: fetchImages returns and handleDelete with it.
DeleteListResp(d) ==
  /\ d.pc = "list_resp"
  /\ images' = FetchImagesResult(d.reply)
  /\ del' = Returned(del, d)
  /\ UNCHANGED <<db, storage, uploading, selectedFile, mount, up, events>>

\* ---------------------------------------------------------- specification
Next ==
  \/ Mount
  \/ MountListServer
  \/ MountListResp
  \/ FileSelect
  \/ UploadClick
  \/ \E u \in BagToSet(up) : UploadPutServer(u)
  \/ \E u \in BagToSet(up) : UploadPutResp(u)
  \/ \E u \in BagToSet(up) : UploadListServer(u)
  \/ \E u \in BagToSet(up) : UploadListResp(u)
  \/ DeleteClick
  \/ \E d \in BagToSet(del) : DeleteStorageServer(d)
  \/ \E d \in BagToSet(del) : DeleteStorageResp(d)
  \/ \E d \in BagToSet(del) : DeleteDbServer(d)
  \/ \E d \in BagToSet(del) : DeleteDbResp(d)
  \/ \E d \in BagToSet(del) : DeleteListServer(d)
  \/ \E d \in BagToSet(del) : DeleteListResp(d)

Spec == Init /\ [][Next]_vars

\* handleUpload called while no file is selected, past the Upload button
\* (which is disabled then): the handler's own guard (line 67) is all that
\* stands before the upload.
UploadCall ==
  /\ Mounted
  /\ selectedFile = NoFile
  /\ CanStart
  /\ UserEvent
  /\ \E ts \in Timestamps : HandleUpload(ts)

NextDirect == Next \/ UploadCall

\* Every request of an upload is answered in the end (the collaborators
\* return) and the handler resumes once its answer is there (the event loop
\* runs the continuation of a settled promise).
UploadProgress ==
  /\ WF_vars(\E u \in BagToSet(up) : UploadPutServer(u))
  /\ WF_vars(\E u \in BagToSet(up) : UploadPutResp(u))
  /\ WF_vars(\E u \in BagToSet(up) : UploadListServer(u))
  /\ WF_vars(\E u \in BagToSet(up) : UploadListResp(u))

\* The page with every request of an upload returning.
FairSpec == Spec /\ UploadProgress

\* The page with the handler also reachable past its button.
SpecDirect == Init /\ [][NextDirect]_vars

\* No list request is answered with an error: every answer to a select that
\* is on its way to fetchImages carries rows.
ListsSucceed ==
  /\ mount.pc = "list_resp" => mount.reply.ok
  /\ \A x \in BagToSet(up) \cup BagToSet(del) : x.pc = "list_resp" => x.reply.ok

NextListsSucceed == Next /\ ListsSucceed'

\* The sessions of the page in which every listImages succeeds.
SpecListsSucceed == Init /\ [][NextListsSucceed]_vars

\* ------------------------------------------------------ reading the steps
Ids(seq) == {seq[i].id : i \in 1..Len(seq)}
RowIds(S) == {r.id : r \in S}

\* The step just taken is the bucket's answer ok to d's object removal.
StorageAnswered(d, ok) ==
  /\ d.pc = "storage_req"
  /\ del' = Moved(del, d, [d EXCEPT !.pc = "storage_resp", !.reply = WriteReply(ok)])

\* The step just taken is the table's answer ok to d's row removal.
DbAnswered(d, ok) ==
  /\ d.pc = "db_req"
  /\ del' = Moved(del, d, [d EXCEPT !.pc = "db_resp", !.reply = WriteReply(ok)])

\* The step just taken is the bucket's answer ok to u's object write.
PutAnswered(u, ok) ==
  /\ u.pc = "put_req"
  /\ up' = Moved(up, u, [u EXCEPT !.pc = "put_resp", !.reply = WriteReply(ok)])

\* The step just taken resumed handleDelete invocation d (handleUpload
\* invocation u) from where it waited.
DelResumed(d) == CopiesIn(d, del') < CopiesIn(d, del)
UpResumed(u) == CopiesIn(u, up') < CopiesIn(u, up)

\* The invocations that reached their position in the step just taken.
DelArrived == {y \in BagToSet(del') : CopiesIn(y, del') > CopiesIn(y, del)}
UpArrived == {y \in BagToSet(up') : CopiesIn(y, up') > CopiesIn(y, up)}

\* The list replies that are on their way to fetchImages.
RepliesInFlight(m, U, D) ==
  {x.reply : x \in {y \in BagToSet(U) \cup BagToSet(D) : y.pc = "list_resp"}}
  \cup (IF m.pc = "list_resp" THEN {m.reply} ELSE {})

\* --------------------------------------------------------------- claims
\* C1: after an upload whose object write succeeded, the next successful
\* listImages (the upload's own refresh) returns one new record, the record
\* of the uploaded file: its storage key, its file_name and its file_size.
C1_UploadAddsRecord ==
  \A u \in BagToSet(up) :
    (u.pc = "list_resp" /\ u.reply.ok) =>
      Cardinality({i \in 1..Len(u.reply.data) :
                     /\ u.reply.data[i].storage_path = u.path
                     /\ u.reply.data[i].file_name = u.file.name
                     /\ u.reply.data[i].file_size = u.file.size}) = 1

\* C2 as stated: every deleteImage whose two removals succeed leaves the
\* table with exactly one row fewer than before its row removal, and with no
\* row of the deleted id.
C2_DeleteRemovesExactlyOne ==
  [][\A d \in BagToSet(del) :
       DbAnswered(d, TRUE) =>
         /\ Cardinality(db') = Cardinality(db) - 1
         /\ d.id \notin RowIds(db')]_vars

\* C2 as amended: a deleteImage whose two removals succeed leaves no row of
\* the deleted id and removes no other row; the table holds one row fewer if
\* a row of that id was still there when the removal ran and as many as
\* before if an earlier delete of the same id had removed it already.  No
\* step brings a row back, and the delete's own refresh, if it succeeds,
\* does not return the id.
C2_DeleteRemovesItsRow ==
  [][/\ \A d \in BagToSet(del) :
          DbAnswered(d, TRUE) =>
            /\ d.id \notin RowIds(db')
            /\ db \ db' = {r \in db : r.id = d.id}
            /\ Cardinality(db') =
                 Cardinality(db) - (IF d.id \in RowIds(db) THEN 1 ELSE 0)
     /\ db' \subseteq db
     /\ \A y \in BagToSet(del') :
          /\ (y.pc = "db_resp" /\ y.reply.ok) \/ y.pc \in {"list_req", "list_resp"}
               => y.id \notin RowIds(db')
          /\ (y.pc = "list_resp" /\ y.reply.ok) => y.id \notin Ids(y.reply.data)
    ]_vars

\* C2 witness: a delete whose two removals succeeded holds the reply of its
\* refresh, which lists one row fewer than the table held at first.
C2_Witness ==
  \E d \in BagToSet(del) :
    /\ d.pc = "list_resp" /\ d.reply.ok
    /\ Len(d.reply.data) = MaxRecords - 1
    /\ Cardinality(db) = MaxRecords - 1

\* A delete has had its object removed and not yet its row: it is between
\* the answer to its object removal and the answer to its row removal.
InDeleteWindow ==
  \E d \in BagToSet(del) :
    \/ d.pc = "storage_resp" /\ d.reply.ok
    \/ d.pc \in {"db_req", "db_resp"}

\* C3: outside the window between a delete's two removals, every row has
\* exactly one stored object under its storage_path and every stored object
\* has a row.
C3_RecordObjectBijection ==
  ~InDeleteWindow =>
    /\ \A r \in db : Cardinality({o \in storage : o.path = r.storage_path}) = 1
    /\ \A o \in storage : \E r \in db : r.storage_path = o.path

\* C4: an object write that fails creates no row: neither the failing answer
\* nor handleUpload's handling of it changes the table.
C4_FailedPutWritesNoRow ==
  [][\A u \in BagToSet(up) :
       /\ PutAnswered(u, FALSE) => db' = db
       /\ (u.pc = "put_resp" /\ ~u.reply.ok /\ UpResumed(u)) => db' = db]_vars

\* C4 witness: the error reply of an object write is on its way and the
\* table holds the rows it held at first.
C4_Witness ==
  \E u \in BagToSet(up) :
    /\ u.pc = "put_resp" /\ ~u.reply.ok
    /\ db = {InitRecord(i) : i \in 1..MaxRecords}

\* The rows whose stored object is gone.
Orphans(rows) == {r \in rows : \A o \in storage : o.path # r.storage_path}

\* C5: when the object removal of a delete succeeded and its row removal
\* fails, the row is left in place: the failing answer changes neither table
\* nor bucket, handleDelete returns on the error reply without sending
\* anything again and without touching the list, a row only ever leaves the
\* table by a successful row removal of its id, and every listImages served
\* returns all rows of the table, the orphaned ones included.
C5_FailedRowRemovalLeavesOrphan ==
  [][/\ \A d \in BagToSet(del) :
          /\ DbAnswered(d, FALSE) => db' = db /\ storage' = storage
          /\ (d.pc = "db_resp" /\ ~d.reply.ok /\ DelResumed(d)) =>
               /\ del' = Returned(del, d)
               /\ db' = db /\ storage' = storage /\ images' = images
     /\ \A r \in db \ db' :
          \E d \in BagToSet(del) : d.id = r.id /\ DbAnswered(d, TRUE)
     /\ \A y \in DelArrived \cup UpArrived :
          (y.pc = "list_resp" /\ y.reply.ok) => Ids(y.reply.data) = RowIds(db)
     /\ (mount.pc = "list_req" /\ mount'.pc = "list_resp" /\ mount'.reply.ok)
          => Ids(mount'.reply.data) = RowIds(db)
    ]_vars

\* C5 witness: no delete is outstanding for a row whose object is gone, and a
\* successful list reply on its way to the page returns that row.
C5_Witness ==
  \E rep \in RepliesInFlight(mount, up, del) :
    /\ rep.ok
    /\ \E i \in 1..Len(rep.data) :
         /\ rep.data[i] \in Orphans(db)
         /\ \A d \in BagToSet(del) : d.id # rep.data[i].id

\* C6: when the object removal of a delete fails, the row removal is never
\* attempted: the failing answer changes neither bucket nor table, on the
\* error reply handleDelete returns and leaves row and object as they are,
\* and a row removal only ever goes out on a successful reply to the object
\* removal of the same delete.
C6_FailedObjectRemovalStops ==
  [][/\ \A d \in BagToSet(del) :
          /\ StorageAnswered(d, FALSE) => storage' = storage /\ db' = db
          /\ (d.pc = "storage_resp" /\ ~d.reply.ok /\ DelResumed(d)) =>
               /\ del' = Returned(del, d)
               /\ storage' = storage /\ db' = db
     /\ \A y \in DelArrived :
          y.pc = "db_req" =>
            \E d \in BagToSet(del) :
              /\ d.pc = "storage_resp" /\ d.reply.ok
              /\ d.id = y.id /\ d.path = y.path
              /\ del' = Moved(del, d, y)
    ]_vars

\* C6 witness: the error reply of an object removal is on its way, and the
\* row and the object of that delete are both still there.
C6_Witness ==
  \E d \in BagToSet(del) :
    /\ d.pc = "storage_resp" /\ ~d.reply.ok
    /\ d.id \in RowIds(db)
    /\ \E o \in storage : o.path = d.path

\* C7: fetchImages leaves the in-memory list as it was when the list request
\* failed and replaces it by the returned rows when it succeeded, whoever
\* called it (the mount effect, handleUpload, handleDelete).
C7_FetchKeepsOrReplaces ==
  [][/\ (mount.pc = "list_resp" /\ mount'.pc = "done") =>
          images' = IF mount.reply.ok THEN mount.reply.data ELSE images
     /\ \A u \in BagToSet(up) :
          (u.pc = "list_resp" /\ UpResumed(u)) =>
            images' = IF u.reply.ok THEN u.reply.data ELSE images
     /\ \A d \in BagToSet(del) :
          (d.pc = "list_resp" /\ DelResumed(d)) =>
            images' = IF d.reply.ok THEN d.reply.data ELSE images
    ]_vars

\* C7 witness: the error reply of a list request is on its way to a page
\* that shows a list.
C7_Witness ==
  /\ images # <<>>
  /\ \E rep \in RepliesInFlight(mount, up, del) : ~rep.ok

\* C8: at most one upload is outstanding at any time: while one handleUpload
\* has started and not returned, no second one has sent its object write.
C8_OneUploadInFlight == BagCardinality(up) <= 1

\* C8 witness: an upload is outstanding, its file still selected and the
\* flag set, so that only the flag keeps the Upload button disabled.
C8_Witness ==
  /\ BagCardinality(up) = 1
  /\ selectedFile # NoFile
  /\ uploading
  /\ InFlight < MaxInFlight
  /\ events < MaxEvents

\* C9 as stated: upload's step 4, clearing the pending selection, runs only
\* after the listImages refresh of step 3 succeeded.
C9_SelectionClearedAfterSuccess ==
  [][(selectedFile # NoFile /\ selectedFile' = NoFile) =>
       \E u \in BagToSet(up) : u.pc = "list_resp" /\ u.reply.ok /\ UpResumed(u)]_vars

\* C9 as amended: within one action the requests go out one after the other,
\* each only on the successful reply to the one before (upload: the refresh
\* after the object write; delete: the row removal after the object removal,
\* the refresh after the row removal); the pending selection is cleared only
\* when the reply of upload's refresh has arrived, successful or not.
C9_StepsInSequence ==
  [][/\ (selectedFile # NoFile /\ selectedFile' = NoFile) =>
          \E u \in BagToSet(up) : u.pc = "list_resp" /\ up' = Returned(up, u)
     /\ \A y \in UpArrived :
          /\ y.pc = "put_req" => up' = up (+) SetToBag({y})
          /\ y.pc = "list_req" =>
               \E u \in BagToSet(up) :
                 u.pc = "put_resp" /\ u.reply.ok /\ up' = Moved(up, u, y)
     /\ \A y \in DelArrived :
          /\ y.pc = "storage_req" => del' = del (+) SetToBag({y})
          /\ y.pc = "db_req" =>
               \E d \in BagToSet(del) :
                 d.pc = "storage_resp" /\ d.reply.ok /\ del' = Moved(del, d, y)
          /\ y.pc = "list_req" =>
               \E d \in BagToSet(del) :
                 d.pc = "db_resp" /\ d.reply.ok /\ del' = Moved(del, d, y)
    ]_vars

\* C9 witness: the error reply of an upload's refresh is on its way while
\* the file is still selected.
C9_Witness ==
  /\ selectedFile # NoFile
  /\ \E u \in BagToSet(up) : u.pc = "list_resp" /\ ~u.reply.ok

\* The deletes whose two removals have both succeeded.
BothRemoved(B) ==
  {d \in BagToSet(B) :
     (d.pc = "db_resp" /\ d.reply.ok) \/ d.pc \in {"list_req", "list_resp"}}

\* C10: deletes of different records do not interfere, however their steps
\* interleave.  Each removal that succeeds takes away exactly the object
\* under its own path (the row of its own id) and each one that fails takes
\* away nothing, whatever the other deletes have done; nothing else leaves
\* bucket or table; and once both removals of a delete have succeeded its
\* row and its object are gone.
C10_DeletesIndependent ==
  [][/\ \A d \in BagToSet(del) :
          /\ StorageAnswered(d, TRUE) =>
               storage' = {o \in storage : o.path # d.path} /\ db' = db
          /\ StorageAnswered(d, FALSE) => storage' = storage /\ db' = db
          /\ DbAnswered(d, TRUE) =>
               db' = {r \in db : r.id # d.id} /\ storage' = storage
          /\ DbAnswered(d, FALSE) => db' = db /\ storage' = storage
     /\ \A o \in storage \ storage' :
          \E d \in BagToSet(del) : d.path = o.path /\ StorageAnswered(d, TRUE)
     /\ \A r \in db \ db' :
          \E d \in BagToSet(del) : d.id = r.id /\ DbAnswered(d, TRUE)
     /\ \A y \in BothRemoved(del') :
          /\ y.id \notin RowIds(db')
          /\ \A o \in storage' : o.path # y.path
    ]_vars

\* C10 witness: two deletes of different records are outstanding, both
\* removals of each have succeeded, and the rows and objects of both are
\* gone.
C10_Witness ==
  \E d, e \in BothRemoved(del) :
    /\ d.id # e.id
    /\ {d.id, e.id} \cap RowIds(db) = {}
    /\ \A o \in storage : o.path \notin {d.path, e.path}

\* The rows of seq run from the newest to the oldest.
Descending(seq) ==
  \A i, j \in 1..Len(seq) : i < j => seq[i].created_at > seq[j].created_at

\* C11: every successful answer of listImages carries its rows newest first
\* (created_at strictly descending, the timestamps being distinct), and the
\* list the component holds is in that order after every refresh.
C11_NewestFirst ==
  /\ Descending(images)
  /\ \A rep \in RepliesInFlight(mount, up, del) : rep.ok => Descending(rep.data)

\* C11 witness: a refresh has put two or more rows into the component's list
\* and a further successful answer with two or more rows is on its way.
C11_Witness ==
  /\ Len(images) >= 2
  /\ \E rep \in RepliesInFlight(mount, up, del) : rep.ok /\ Len(rep.data) >= 2

\* The rows a list carries, without their order.
Rows(seq) == {seq[i] : i \in 1..Len(seq)}

\* The lists listImages has produced that are still to be seen: the
\* successful answers on their way and the list the component holds.
ListsSeen ==
  {rep.data : rep \in {x \in RepliesInFlight(mount, up, del) : x.ok}} \cup {images}

KeyTaken(u) == \E o \in storage : o.path = u.path

\* C13: the object write of an upload never overwrites.  Sent to a key that
\* already holds an object it is answered with an error and leaves the bucket
\* as it was, and the upload then returns without going on; no answer to an
\* object write takes an object away or puts a second one under a key.
C13_WriteNeverOverwrites ==
  [][/\ \A u \in BagToSet(up) :
          /\ KeyTaken(u) =>
               /\ ~PutAnswered(u, TRUE)
               /\ PutAnswered(u, FALSE) => storage' = storage
          /\ (u.pc = "put_resp" /\ ~u.reply.ok /\ UpResumed(u)) =>
               up' = Returned(up, u)
          /\ (PutAnswered(u, TRUE) \/ PutAnswered(u, FALSE)) =>
               storage \subseteq storage'
     /\ \A o, q \in storage' : o.path = q.path => o = q
    ]_vars

\* C13 witness: an object write was sent to a key that holds an object with
\* other contents; the write has been refused and that object is still there.
C13_Witness ==
  \E u \in BagToSet(up) :
    /\ u.pc = "put_resp"
    /\ ~u.reply.ok
    /\ \E o \in storage : o.path = u.path /\ o.file # u.file

\* C14: when the object write of an upload fails the upload returns without
\* calling listImages.  Neither the failing answer nor the handler's way out
\* through catch and finally changes the component's list or sends a list
\* request; an upload sends its list request only on a successful answer.
C14_FailedPutNoRefresh ==
  [][/\ \A u \in BagToSet(up) :
          /\ PutAnswered(u, FALSE) => images' = images
          /\ (u.pc = "put_resp" /\ ~u.reply.ok /\ UpResumed(u)) =>
               /\ up' = Returned(up, u)
               /\ images' = images
               /\ mount' = mount /\ del' = del
     /\ \A y \in UpArrived :
          y.pc = "list_req" =>
            \E u \in BagToSet(up) : u.pc = "put_resp" /\ u.reply.ok /\ UpResumed(u)
    ]_vars

\* C14 witness: the component shows the rows of the table, nothing but one
\* upload is outstanding, and the answer to its object write is an error.
C14_Witness ==
  /\ Len(images) >= 2
  /\ mount.pc = "done"
  /\ del = EmptyBag
  /\ \E u \in BagToSet(up) : u.pc = "put_resp" /\ ~u.reply.ok

\* C15: when an upload whose object write succeeded returns, the selection
\* is empty and the Upload button is disabled; the selection becomes a file
\* again only by a change event of the file input, and only an upload of the
\* selected file can start.  When an upload whose object write failed
\* returns, the selection is still the file it was sent with.
C15_SelectionAfterUpload ==
  [][/\ \A u \in BagToSet(up) :
          /\ (u.pc = "list_resp" /\ UpResumed(u)) =>
               selectedFile' = NoFile /\ ~UploadButtonEnabled'
          /\ (u.pc = "put_resp" /\ ~u.reply.ok /\ UpResumed(u)) =>
               selectedFile' = u.file /\ selectedFile' # NoFile
     /\ (selectedFile = NoFile /\ selectedFile' # NoFile) =>
          events' = events + 1 /\ up' = up /\ del' = del
     /\ \A y \in UpArrived :
          y.pc = "put_req" => selectedFile # NoFile /\ y.file = selectedFile
    ]_vars

\* C15 witness: an upload has stored its object and returned; no upload is
\* outstanding, the selection is empty and the button is disabled.
C15_Witness ==
  /\ up = EmptyBag
  /\ ~uploading
  /\ selectedFile = NoFile
  /\ ~UploadButtonEnabled
  /\ \E o \in storage : o.path[1] \in Timestamps

\* C16: handleUpload called while no file is selected does nothing.  From a
\* state without a selection no step sends an object write or sets the
\* uploading flag, and a user event that neither selects a file nor starts a
\* delete (the call of handleUpload, or a file dialog closed without a file)
\* leaves flag, selection, list, bucket, table and every outstanding request
\* as they were.
C16_UploadWithoutFileNoOp ==
  [][selectedFile = NoFile =>
       /\ \A y \in UpArrived : y.pc # "put_req"
       /\ uploading' = uploading
       /\ (events' # events /\ selectedFile' = NoFile /\ del' = del) =>
            UNCHANGED <<db, storage, images, uploading, selectedFile, mount, up, del>>
    ]_vars

\* C16 witness: the page shows the rows, no file is selected, nothing is
\* outstanding, and every user event of the session so far was such a call.
C16_Witness ==
  /\ events = MaxEvents
  /\ selectedFile = NoFile
  /\ Len(images) >= 2
  /\ ~uploading
  /\ up = EmptyBag /\ del = EmptyBag
  /\ storage = {InitObject(i) : i \in 1..MaxRecords}
  /\ db = {InitRecord(i) : i \in 1..MaxRecords}

\* C17: when the object removal or the row removal of a delete fails, the
\* delete returns without calling listImages.  Neither the failing answer
\* nor the handler's way out changes the component's list or sends a list
\* request; a delete sends its list request only after its row removal
\* succeeded; and the list changes only when a successful list answer of
\* some refresh is delivered, so the record stays on the page until then.
C17_FailedDeleteNoRefresh ==
  [][/\ \A d \in BagToSet(del) :
          /\ (StorageAnswered(d, FALSE) \/ DbAnswered(d, FALSE)) => images' = images
          /\ (d.pc \in {"storage_resp", "db_resp"} /\ ~d.reply.ok /\ DelResumed(d)) =>
               /\ del' = Returned(del, d)
               /\ images' = images
               /\ mount' = mount /\ up' = up
     /\ \A y \in DelArrived :
          y.pc = "list_req" =>
            \E d \in BagToSet(del) : d.pc = "db_resp" /\ d.reply.ok /\ DelResumed(d)
     /\ images' # images =>
          \E rep \in RepliesInFlight(mount, up, del) : rep.ok /\ images' = rep.data
    ]_vars

\* C17 witness: the object of a record is gone from the bucket, the row
\* removal of its delete has failed, and the record is on the page.
C17_Witness ==
  \E d \in BagToSet(del) :
    /\ d.pc = "db_resp" /\ ~d.reply.ok
    /\ d.id \in Ids(images)
    /\ \A o \in storage : o.path # d.path

\* C18: provided every request of an upload returns, an upload that has set
\* the uploading flag sets it back to false in the end, whether its object
\* write and its refresh succeed or fail; the Upload button is never
\* disabled for good by the flag.
C18_UploadingEventuallyCleared == uploading ~> ~uploading

\* C18 witness: the flag is set and the refresh of the upload, the last of
\* its requests, has been answered with an error.
C18_Witness ==
  /\ uploading
  /\ \E u \in BagToSet(up) : u.pc = "list_resp" /\ ~u.reply.ok /\ u.file = selectedFile

\* C19 as stated, over the sessions in which every listImages succeeds (so
\* the most recently issued one did): once the mount-time refresh is done and
\* no request is outstanding, the component's list is the table's contents.
C19_ListEqualsStore ==
  (mount.pc = "done" /\ InFlight = 0) => images = SortDesc(db)

\* C20: the uploading flag is true exactly while a handleUpload invocation
\* is outstanding (its object write or its refresh not yet returned): never
\* false with an upload in flight, never true with none.
C20_FlagIffUploadInFlight == uploading <=> BagCardinality(up) >= 1

\* C20 witness: an upload and a delete are outstanding together and the flag
\* is set.
C20_Witness ==
  /\ uploading
  /\ BagCardinality(up) = 1
  /\ BagCardinality(del) >= 1

====
